---------------------------- MODULE Spec2Model ----------------------------
(***************************************************************************)
(* Model of scripts/config_generator.py: the ConfigGenerator class (GPU    *)
(* probe, the five generators, save_config) and the command line entry     *)
(* point main, together with the part of the filesystem they write to.     *)
(*                                                                         *)
(* Representation.  A Python string is a sequence of chunks (TLA+ strings),*)
(* concatenation of strings is \o.  A Python value (a "document") is a     *)
(* record [kind, str, num, items]; dictionaries keep their insertion       *)
(* order as a sequence of <<key, value>> pairs.                            *)
(***************************************************************************)
EXTENDS Integers, Sequences, FiniteSets, TLC

VARIABLES
    argv,        \* the directories given on the command line / to __init__
    generator,   \* the ConfigGenerator object (alive = FALSE before __init__)
    dirState,    \* the working directory on disk: missing, readonly, writable
    files,       \* the files under the working directory, by file name
    last,        \* the most recent call: its arguments and what it returned
    logged       \* the log records (levels) the most recent call emitted

vars == <<argv, generator, dirState, files, last, logged>>

---------------------------------------------------------------------------
(* Bounds of the model *)

\* GPU sizes (in GB) the probe can report range over 0..MaxGB
MaxGB == 25

\* an I/O failure during a write strikes after at most MaxPartial chunks
MaxPartial == 2

---------------------------------------------------------------------------
(* Python values *)

S(s)  == [kind |-> "str",   str |-> s,    num |-> 0, items |-> <<>>]
I(n)  == [kind |-> "int",   str |-> <<>>, num |-> n, items |-> <<>>]
\* a float, held in tenths: 0.9 is Fl(9), 7.0 is Fl(70)
Fl(t) == [kind |-> "float", str |-> <<>>, num |-> t, items |-> <<>>]
B(b)  == [kind |-> "bool",  str |-> <<>>, num |-> IF b THEN 1 ELSE 0, items |-> <<>>]
L(xs) == [kind |-> "list",  str |-> <<>>, num |-> 0, items |-> xs]
\* a dict: items is the sequence of <<key, value>> pairs in insertion order
M(kv) == [kind |-> "dict",  str |-> <<>>, num |-> 0, items |-> kv]
\* a value json cannot encode and that has no .items() (a set, a Path, ...)
Obj   == [kind |-> "object", str |-> <<>>, num |-> 0, items |-> <<>>]
PyNone == [kind |-> "None", str |-> <<>>, num |-> 0, items |-> <<>>]

Keys(d) == {d.items[i][1] : i \in 1..Len(d.items)}

HasKey(d, k) == k \in Keys(d)

\* d[k] for a key the dict holds
Get(d, k) == d.items[CHOOSE i \in 1..Len(d.items) : d.items[i][1] = k][2]

\* dict.get(k, default)
DictGet(d, k, default) == IF HasKey(d, k) THEN Get(d, k) ELSE default

Range(s) == {s[i] : i \in 1..Len(s)}

---------------------------------------------------------------------------
(* pathlib.Path *)

RECURSIVE JoinFrom(_, _, _)
JoinFrom(parts, i, sep) ==
    IF i > Len(parts) THEN <<>>
    ELSE IF i = Len(parts) THEN <<parts[i]>>
    ELSE <<parts[i], sep>> \o JoinFrom(parts, i + 1, sep)

\* sep.join(parts)
Join(parts, sep) == JoinFrom(parts, 1, sep)

IsSegment(c) == c # "/" /\ c # "."

\* str(Path(raw)): repeated and trailing slashes and "." segments are dropped
PathStr(raw) ==
    LET parts == SelectSeq(raw, IsSegment)
    IN  IF raw # <<>> /\ raw[1] = "/" THEN <<"/">> \o Join(parts, "/")
        ELSE IF parts = <<>> THEN <<".">>
        ELSE Join(parts, "/")

---------------------------------------------------------------------------
(* _get_gpu_memory: the nvidia-smi probe *)

MiBPerGB == 1024

DefaultGpuMemoryGB == 8

DigitChars == <<"0", "1", "2", "3", "4", "5", "6", "7", "8", "9">>

Whitespace == {" ", "\n", "\t", "\r"}

\* the decimal text nvidia-smi prints for a non-negative number
RECURSIVE Decimal(_)
Decimal(n) ==
    IF n < 10 THEN <<DigitChars[n + 1]>>
    ELSE Decimal(n \div 10) \o <<DigitChars[(n % 10) + 1]>>

\* memory.total readings, in MiB: every size 0..MaxGB, exact and just below the next GB
MiBReadings == {g * MiBPerGB + r : g \in 0..MaxGB, r \in {0, MiBPerGB - 1}}

\* what `nvidia-smi --query-gpu=memory.total --format=csv,noheader,nounits`
\* leaves on stdout when it exits 0: one line per GPU.  mib is the first GPU's
\* reading when the first line is a number, NoReading when it is not.
NoReading == 0 - 1000000

SmiOutputs ==
    {[mib |-> m, stdout |-> Decimal(m) \o <<"\n">>] : m \in MiBReadings}
    \cup {[mib |-> m, stdout |-> Decimal(m) \o <<"\n">> \o Decimal(MiBPerGB) \o <<"\n">>] :
             m \in {12 * MiBPerGB, 24 * MiBPerGB}}
    \cup {[mib |-> 16384, stdout |-> <<" ", "1", "6", "3", "8", "4", " ", "\r", "\n">>],
          [mib |-> -1, stdout |-> <<"-", "1", "\n">>],
          [mib |-> NoReading, stdout |-> <<>>],
          [mib |-> NoReading, stdout |-> <<"\n">>],
          [mib |-> NoReading, stdout |-> <<"N", "/", "A", "\n">>],
          [mib |-> NoReading, stdout |-> <<"8", "1", "9", "2", " ", "M", "i", "B", "\n">>],
          [mib |-> NoReading, stdout |-> <<"\n", "N", "/", "A", "\n", "8", "\n">>]}

\* the ways subprocess.run(..., check=True) ends
ProbeOutcomes ==
    {[kind |-> k, mib |-> NoReading, stdout |-> <<>>] :
        k \in {"FileNotFoundError", "CalledProcessError", "PermissionError"}}
    \cup {[kind |-> "completed", mib |-> o.mib, stdout |-> o.stdout] : o \in SmiOutputs}

RECURSIVE LStrip(_)
LStrip(s) == IF s # <<>> /\ s[1] \in Whitespace THEN LStrip(Tail(s)) ELSE s

RECURSIVE RStrip(_)
RStrip(s) ==
    IF s # <<>> /\ s[Len(s)] \in Whitespace THEN RStrip(SubSeq(s, 1, Len(s) - 1)) ELSE s

\* str.strip()
Strip(s) == LStrip(RStrip(s))

\* str.split('\n')[0]
RECURSIVE FirstLine(_)
FirstLine(s) ==
    IF s = <<>> \/ s[1] = "\n" THEN <<>> ELSE <<s[1]>> \o FirstLine(Tail(s))

DigitValue(c) == CHOOSE d \in 0..9 : DigitChars[d + 1] = c

RECURSIVE DigitsValue(_)
DigitsValue(ds) ==
    IF ds = <<>> THEN 0
    ELSE 10 * DigitsValue(SubSeq(ds, 1, Len(ds) - 1)) + DigitValue(ds[Len(ds)])

\* int(text): surrounding whitespace and one sign are accepted, then only digits
PyInt(text) ==
    LET t      == Strip(text)
        signed == t # <<>> /\ t[1] \in {"-", "+"}
        ds     == IF signed THEN Tail(t) ELSE t
        ok     == ds # <<>> /\ \A i \in 1..Len(ds) : ds[i] \in Range(DigitChars)
    IN  [ok  |-> ok,
         val |-> IF ~ok THEN 0
                 ELSE IF signed /\ t[1] = "-" THEN 0 - DigitsValue(ds)
                 ELSE DigitsValue(ds)]

\* the exceptions the except clause of _get_gpu_memory names
ProbeHandled == {"CalledProcessError", "FileNotFoundError", "ValueError"}

\* _get_gpu_memory: [raised, value, warned]
get_gpu_memory(probe) ==
    LET parsed == PyInt(FirstLine(Strip(probe.stdout)))
        exc    == IF probe.kind # "completed" THEN probe.kind
                  ELSE IF ~parsed.ok THEN "ValueError"
                  ELSE "none"
    IN  IF exc = "none"
        THEN [raised |-> "none", value |-> parsed.val \div MiBPerGB, warned |-> FALSE]
        ELSE IF exc \in ProbeHandled
        THEN [raised |-> "none", value |-> DefaultGpuMemoryGB, warned |-> TRUE]
        ELSE [raised |-> exc, value |-> 0, warned |-> FALSE]

NoGenerator ==
    [alive |-> FALSE, work_dir |-> <<>>, comfyui_dir |-> <<>>, gpu_memory_gb |-> 0]

\* ConfigGenerator.__init__
Construct ==
    /\ ~generator.alive
    /\ \E probe \in ProbeOutcomes :
         \E r \in {get_gpu_memory(probe)} :
             /\ generator' =
                   IF r.raised = "none"
                   THEN [alive |-> TRUE,
                         work_dir |-> PathStr(argv.work_dir),
                         comfyui_dir |-> PathStr(argv.comfyui_dir),
                         gpu_memory_gb |-> r.value]
                   ELSE NoGenerator
             /\ last' = [op |-> "__init__", probe |-> probe, raised |-> r.raised]
             /\ logged' = IF r.warned THEN <<"WARNING">> ELSE <<>>
    /\ UNCHANGED <<argv, dirState, files>>

---------------------------------------------------------------------------
(* The generators *)

\* a string literal, and a dict entry with a literal key
Str(s) == S(<<s>>)

KV(k, v) == << <<k>>, v >>

\* f"{self.work_dir}/logs/<program>.log" and f"{self.work_dir}/logs/<program>.error.log"
\* variant: stdout logged to the error log
StdoutLogfile_shared(wd, prog) == wd \o <<"/logs/", prog, ".error.log">>

StdoutLogfile(wd, prog) == wd \o <<"/logs/", prog, ".log">>

StderrLogfile(wd, prog) == wd \o <<"/logs/", prog, ".error.log">>

VenvPath(wd) == <<"PATH=\"">> \o wd \o <<"/venv/bin:/usr/local/bin:/usr/bin:/bin\"">>

generate_supervisor_config(wd, cd) ==
    M(<< KV("unix_http_server",
            M(<< KV("file", Str("/tmp/supervisor.sock")),
                 KV("chmod", Str("0700")) >>)),
         KV("supervisord",
            M(<< KV("logfile", S(wd \o <<"/logs/supervisord.log">>)),
                 KV("logfile_maxbytes", Str("50MB")),
                 KV("logfile_backups", I(10)),
                 KV("loglevel", Str("info")),
                 KV("pidfile", Str("/tmp/supervisord.pid")),
                 KV("nodaemon", B(FALSE)),
                 KV("minfds", I(1024)),
                 KV("minprocs", I(200)) >>)),
         KV("rpcinterface:supervisor",
            M(<< KV("supervisor.rpcinterface_factory",
                    Str("supervisor.rpcinterface:make_main_rpcinterface")) >>)),
         KV("supervisorctl",
            M(<< KV("serverurl", Str("unix:///tmp/supervisor.sock")) >>)),
         << <<"program:", "comfyui">>,
            M(<< KV("command", S(wd \o <<"/start_comfyui.sh">>)),
                 KV("directory", S(cd)),
                 KV("autostart", B(TRUE)),
                 KV("autorestart", B(TRUE)),
                 KV("stderr_logfile", S(StderrLogfile(wd, "comfyui"))),
                 KV("stdout_logfile", S(StdoutLogfile(wd, "comfyui"))),
                 KV("environment", S(VenvPath(wd))) >>) >>,
         << <<"program:", "fastapi">>,
            M(<< KV("command", S(wd \o <<"/start_fastapi.sh">>)),
                 KV("directory", S(wd)),
                 KV("autostart", B(TRUE)),
                 KV("autorestart", B(TRUE)),
                 KV("stderr_logfile", S(StderrLogfile(wd, "fastapi"))),
                 KV("stdout_logfile", S(StdoutLogfile(wd, "fastapi"))),
                 KV("environment", S(VenvPath(wd))) >>) >> >>)

\* Optional[str]: None, or a string of characters
NoDomain == [given |-> FALSE, str |-> <<>>]

Domain(d) == [given |-> TRUE, str |-> d]

\* variant: the domain argument is ignored
ServerName_wildcard(domain) == <<"_">>

\* domain if domain else "_"
ServerName(domain) ==
    IF domain.given /\ domain.str # <<>> THEN domain.str ELSE <<"_">>

\* the f-string of generate_nginx_config, line by line (the first and the last line
\* are the empty ones next to the triple quotes; the Chinese comment lines are
\* given in English, TLA+ strings being ASCII)
NginxTemplate(server_name) ==
    << <<>>,
       <<"server {">>,
       <<"    listen 80;">>,
       <<"    server_name ">> \o server_name \o <<";">>,
       <<"    ">>,
       <<"    # static file cache">>,
       <<"    location ~* \\.(jpg|jpeg|png|gif|ico|css|js)$ {">>,
       <<"        expires 1y;">>,
       <<"        add_header Cache-Control \"public, immutable\";">>,
       <<"    }">>,
       <<"    ">>,
       <<"    # FastAPI proxy">>,
       <<"    location /api/ {">>,
       <<"        proxy_pass http://localhost:8000/;">>,
       <<"        proxy_set_header Host $host;">>,
       <<"        proxy_set_header X-Real-IP $remote_addr;">>,
       <<"        proxy_set_header X-Forwarded-For $proxy_add_x_forwarded_for;">>,
       <<"        proxy_set_header X-Forwarded-Proto $scheme;">>,
       <<"        ">>,
       <<"        # WebSocket support">>,
       <<"        proxy_http_version 1.1;">>,
       <<"        proxy_set_header Upgrade $http_upgrade;">>,
       <<"        proxy_set_header Connection \"upgrade\";">>,
       <<"        ">>,
       <<"        # timeouts">>,
       <<"        proxy_connect_timeout 60s;">>,
       <<"        proxy_send_timeout 60s;">>,
       <<"        proxy_read_timeout 60s;">>,
       <<"    }">>,
       <<"    ">>,
       <<"    # ComfyUI proxy">>,
       <<"    location /comfyui/ {">>,
       <<"        proxy_pass http://localhost:8188/;">>,
       <<"        proxy_set_header Host $host;">>,
       <<"        proxy_set_header X-Real-IP $remote_addr;">>,
       <<"        proxy_set_header X-Forwarded-For $proxy_add_x_forwarded_for;">>,
       <<"        proxy_set_header X-Forwarded-Proto $scheme;">>,
       <<"        ">>,
       <<"        # WebSocket support">>,
       <<"        proxy_http_version 1.1;">>,
       <<"        proxy_set_header Upgrade $http_upgrade;">>,
       <<"        proxy_set_header Connection \"upgrade\";">>,
       <<"        ">>,
       <<"        # large uploads">>,
       <<"        client_max_body_size 100M;">>,
       <<"        ">>,
       <<"        # timeouts">>,
       <<"        proxy_connect_timeout 300s;">>,
       <<"        proxy_send_timeout 300s;">>,
       <<"        proxy_read_timeout 300s;">>,
       <<"    }">>,
       <<"    ">>,
       <<"    # WebSocket direct proxy">>,
       <<"    location /ws {">>,
       <<"        proxy_pass http://localhost:8188/ws;">>,
       <<"        proxy_http_version 1.1;">>,
       <<"        proxy_set_header Upgrade $http_upgrade;">>,
       <<"        proxy_set_header Connection \"upgrade\";">>,
       <<"        proxy_set_header Host $host;">>,
       <<"        proxy_set_header X-Real-IP $remote_addr;">>,
       <<"        proxy_set_header X-Forwarded-For $proxy_add_x_forwarded_for;">>,
       <<"        proxy_set_header X-Forwarded-Proto $scheme;">>,
       <<"        ">>,
       <<"        # WebSocket settings">>,
       <<"        proxy_buffering off;">>,
       <<"        proxy_cache off;">>,
       <<"    }">>,
       <<"    ">>,
       <<"    # default proxy to FastAPI">>,
       <<"    location / {">>,
       <<"        proxy_pass http://localhost:8000/;">>,
       <<"        proxy_set_header Host $host;">>,
       <<"        proxy_set_header X-Real-IP $remote_addr;">>,
       <<"        proxy_set_header X-Forwarded-For $proxy_add_x_forwarded_for;">>,
       <<"        proxy_set_header X-Forwarded-Proto $scheme;">>,
       <<"    }">>,
       <<"}">>,
       <<>> >>

\* the lines joined by "\n" into one text
RECURSIVE JoinLinesOf(_, _, _)
JoinLinesOf(lines, lo, hi) ==
    IF lo > hi THEN <<>>
    ELSE IF lo = hi THEN lines[lo]
    ELSE LET mid == (lo + hi) \div 2
         IN  JoinLinesOf(lines, lo, mid) \o <<"\n">> \o JoinLinesOf(lines, mid + 1, hi)

JoinLines(lines) == JoinLinesOf(lines, 1, Len(lines))

generate_nginx_config(domain) ==
    S(Strip(JoinLines(NginxTemplate(ServerName(domain)))))

Ref(node, slot) == L(<<Str(node), I(slot)>>)

CheckpointLoaderNode ==
    M(<< KV("class_type", Str("CheckpointLoaderSimple")),
         KV("inputs", M(<< KV("ckpt_name", Str("flux1-dev.safetensors")) >>)) >>)

PositivePromptNode ==
    M(<< KV("class_type", Str("CLIPTextEncode")),
         KV("inputs", M(<< KV("text", Str("a beautiful landscape")),
                           KV("clip", Ref("1", 1)) >>)) >>)

EmptyLatentNode ==
    M(<< KV("class_type", Str("EmptyLatentImage")),
         KV("inputs", M(<< KV("width", I(1024)),
                           KV("height", I(1024)),
                           KV("batch_size", I(1)) >>)) >>)

\* variant: the negative prompt read from a node the graph does not hold
KSamplerNode_dangling ==
    M(<< KV("class_type", Str("KSampler")),
         KV("inputs", M(<< KV("seed", I(42)),
                           KV("steps", I(20)),
                           KV("cfg", Fl(70)),
                           KV("sampler_name", Str("euler")),
                           KV("scheduler", Str("normal")),
                           KV("denoise", Fl(10)),
                           KV("model", Ref("1", 0)),
                           KV("positive", Ref("2", 0)),
                           KV("negative", Ref("8", 0)),
                           KV("latent_image", Ref("3", 0)) >>)) >>)

KSamplerNode ==
    M(<< KV("class_type", Str("KSampler")),
         KV("inputs", M(<< KV("seed", I(42)),
                           KV("steps", I(20)),
                           KV("cfg", Fl(70)),
                           KV("sampler_name", Str("euler")),
                           KV("scheduler", Str("normal")),
                           KV("denoise", Fl(10)),
                           KV("model", Ref("1", 0)),
                           KV("positive", Ref("2", 0)),
                           KV("negative", Ref("5", 0)),
                           KV("latent_image", Ref("3", 0)) >>)) >>)

NegativePromptNode ==
    M(<< KV("class_type", Str("CLIPTextEncode")),
         KV("inputs", M(<< KV("text", S(<<>>)),
                           KV("clip", Ref("1", 1)) >>)) >>)

VAEDecodeNode ==
    M(<< KV("class_type", Str("VAEDecode")),
         KV("inputs", M(<< KV("samples", Ref("4", 0)),
                           KV("vae", Ref("1", 2)) >>)) >>)

SaveImageNode ==
    M(<< KV("class_type", Str("SaveImage")),
         KV("inputs", M(<< KV("filename_prefix", Str("ComfyUI")),
                           KV("images", Ref("6", 0)) >>)) >>)

\* the graph under "basic"
BasicWorkflow ==
    M(<< KV("1", CheckpointLoaderNode),
         KV("2", PositivePromptNode),
         KV("3", EmptyLatentNode),
         KV("4", KSamplerNode),
         KV("5", NegativePromptNode),
         KV("6", VAEDecodeNode),
         KV("7", SaveImageNode) >>)

\* the catalog: one entry
workflows == M(<< KV("basic", BasicWorkflow) >>)

\* variant: workflows.get(workflow_type), no fallback
generate_comfyui_workflow_nofallback(workflow_type) ==
    DictGet(workflows, workflow_type, PyNone)

\* workflows.get(workflow_type, workflows["basic"])
generate_comfyui_workflow(workflow_type) ==
    DictGet(workflows, workflow_type, Get(workflows, <<"basic">>))

generate_docker_compose(wd) ==
    M(<< KV("version", Str("3.8")),
         KV("services",
            M(<< KV("comfyui-service",
                    M(<< KV("build", M(<< KV("context", Str(".")),
                                          KV("dockerfile", Str("Dockerfile")) >>)),
                         KV("ports", L(<< Str("8000:8000"), Str("8188:8188") >>)),
                         KV("volumes", L(<< S(wd \o <<":/app">>),
                                            Str("/models:/models"),
                                            Str("./logs:/app/logs") >>)),
                         KV("environment", L(<< Str("PYTHONPATH=/app"),
                                                Str("CUDA_VISIBLE_DEVICES=0") >>)),
                         KV("deploy",
                            M(<< KV("resources",
                                    M(<< KV("reservations",
                                            M(<< KV("devices",
                                                    L(<< M(<< KV("driver", Str("nvidia")),
                                                              KV("count", I(1)),
                                                              KV("capabilities",
                                                                 L(<< Str("gpu") >>)) >>)
                                                      >>)) >>)) >>)) >>)),
                         KV("restart", Str("unless-stopped")) >>)),
                 KV("nginx",
                    M(<< KV("image", Str("nginx:alpine")),
                         KV("ports", L(<< Str("80:80"), Str("443:443") >>)),
                         KV("volumes",
                            L(<< Str("./nginx/nginx.conf:/etc/nginx/nginx.conf"),
                                 Str("./nginx/sites-available:/etc/nginx/sites-available"),
                                 Str("./nginx/ssl:/etc/nginx/ssl") >>)),
                         KV("depends_on", L(<< Str("comfyui-service") >>)),
                         KV("restart", Str("unless-stopped")) >>)) >>)) >>)

HighMemoryTier == 24

MediumMemoryTier == 12

HighMemoryProfile ==
    M(<< KV("memory_management", Str("high_memory")),
         KV("batch_size", I(4)),
         KV("attention_mode", Str("flash_attention")),
         KV("model_precision", Str("fp16")),
         KV("cache_models", B(TRUE)),
         KV("memory_fraction", Fl(9)) >>)

MediumMemoryProfile ==
    M(<< KV("memory_management", Str("medium_memory")),
         KV("batch_size", I(2)),
         KV("attention_mode", Str("efficient_attention")),
         KV("model_precision", Str("fp16")),
         KV("cache_models", B(TRUE)),
         KV("memory_fraction", Fl(8)) >>)

LowMemoryProfile ==
    M(<< KV("memory_management", Str("low_memory")),
         KV("batch_size", I(1)),
         KV("attention_mode", Str("low_mem_attention")),
         KV("model_precision", Str("fp16")),
         KV("cache_models", B(FALSE)),
         KV("memory_fraction", Fl(7)),
         KV("enable_sequential_cpu_offload", B(TRUE)) >>)

\* variant: the tier bounds taken as exclusive (> in place of >=)
optimize_for_gpu_memory_exclusive(gpu_memory_gb) ==
    IF gpu_memory_gb > HighMemoryTier THEN HighMemoryProfile
    ELSE IF gpu_memory_gb > MediumMemoryTier THEN MediumMemoryProfile
    ELSE LowMemoryProfile

optimize_for_gpu_memory(gpu_memory_gb) ==
    IF gpu_memory_gb >= HighMemoryTier THEN HighMemoryProfile
    ELSE IF gpu_memory_gb >= MediumMemoryTier THEN MediumMemoryProfile
    ELSE LowMemoryProfile

---------------------------------------------------------------------------
(* Serialization: what each format branch of save_config hands to f.write, *)
(* one chunk per write call, and the exception that ends it part-way.      *)

\* one write call: a punctuation token, or a token carrying text or a number
Tok(t) == [tok |-> t, str |-> <<>>, num |-> 0]

TokStr(t, s) == [tok |-> t, str |-> s, num |-> 0]

TokNum(t, n) == [tok |-> t, str |-> <<>>, num |-> n]

Written(chunks) == [chunks |-> chunks, error |-> "none"]

\* str(value) / repr(value) as Python formats them
RECURSIVE PyRepr(_)
RECURSIVE PyReprItems(_, _, _)
PyStr(v) ==
    IF v.kind = "str" THEN v.str ELSE PyRepr(v)

PyRepr(v) ==
    CASE v.kind = "str"    -> <<"'">> \o v.str \o <<"'">>
      [] v.kind = "int"    -> IF v.num < 0 THEN <<"-">> \o Decimal(0 - v.num) ELSE Decimal(v.num)
      [] v.kind = "float"  -> Decimal(v.num \div 10) \o <<".">> \o Decimal(v.num % 10)
      [] v.kind = "bool"   -> IF v.num = 1 THEN <<"True">> ELSE <<"False">>
      [] v.kind = "None"   -> <<"None">>
      [] v.kind = "list"   -> <<"[">> \o PyReprItems(v.items, 1, FALSE) \o <<"]">>
      [] v.kind = "dict"   -> <<"{">> \o PyReprItems(v.items, 1, TRUE) \o <<"}">>
      [] v.kind = "object" -> <<"<object>">>

PyReprItems(items, i, isDict) ==
    IF i > Len(items) THEN <<>>
    ELSE LET one == IF isDict
                    THEN <<"'">> \o items[i][1] \o <<"': ">> \o PyRepr(items[i][2])
                    ELSE PyRepr(items[i])
         IN  IF i = Len(items) THEN one
             ELSE one \o <<", ">> \o PyReprItems(items, i + 1, isDict)

\* json.dump(config, f, indent=2, ensure_ascii=False): the encoder yields the
\* document piece by piece and each piece is written as it comes; a value it
\* cannot encode raises TypeError after the pieces before it were written.
\* A newline token carries the nesting depth (2 spaces for each level).
RECURSIVE JsonValue(_, _)
RECURSIVE JsonItems(_, _, _, _)
JsonValue(v, depth) ==
    CASE v.kind = "str"    -> Written(<<TokStr("string", v.str)>>)
      [] v.kind = "int"    -> Written(<<TokNum("int", v.num)>>)
      [] v.kind = "float"  -> Written(<<TokNum("float", v.num)>>)
      [] v.kind = "bool"   -> Written(<<Tok(IF v.num = 1 THEN "true" ELSE "false")>>)
      [] v.kind = "None"   -> Written(<<Tok("null")>>)
      [] v.kind = "list"   ->
            IF v.items = <<>> THEN Written(<<Tok("[]")>>)
            ELSE LET body == JsonItems(v.items, 1, FALSE, depth + 1)
                 IN  IF body.error # "none"
                     THEN [chunks |-> <<Tok("[")>> \o body.chunks, error |-> body.error]
                     ELSE Written(<<Tok("[")>> \o body.chunks
                                  \o <<TokNum("newline", depth), Tok("]")>>)
      [] v.kind = "dict"   ->
            IF v.items = <<>> THEN Written(<<Tok("{}")>>)
            ELSE LET body == JsonItems(v.items, 1, TRUE, depth + 1)
                 IN  IF body.error # "none"
                     THEN [chunks |-> <<Tok("{")>> \o body.chunks, error |-> body.error]
                     ELSE Written(<<Tok("{")>> \o body.chunks
                                  \o <<TokNum("newline", depth), Tok("}")>>)
      [] v.kind = "object" -> [chunks |-> <<>>, error |-> "TypeError"]

JsonItems(items, i, isDict, depth) ==
    IF i > Len(items) THEN Written(<<>>)
    ELSE LET lead == IF i = 1 THEN <<TokNum("newline", depth)>>
                     ELSE <<Tok(","), TokNum("newline", depth)>>
             key  == IF isDict THEN <<TokStr("string", items[i][1]), Tok(": ")>> ELSE <<>>
             val  == JsonValue(IF isDict THEN items[i][2] ELSE items[i], depth)
         IN  IF val.error # "none"
             THEN [chunks |-> lead \o key \o val.chunks, error |-> val.error]
             ELSE LET rest == JsonItems(items, i + 1, isDict, depth)
                  IN  [chunks |-> lead \o key \o val.chunks \o rest.chunks,
                       error  |-> rest.error]

JsonDump(config) == JsonValue(config, 0)

\* the "ini" branch: "[section]\n", then "key = value\n" for each key when the
\* section's value is a dict, then "\n"
RECURSIVE IniKeys(_, _)
IniKeys(items, i) ==
    IF i > Len(items) THEN <<>>
    ELSE <<TokStr("write", items[i][1] \o <<" = ">> \o PyStr(items[i][2]) \o <<"\n">>)>>
         \o IniKeys(items, i + 1)

RECURSIVE IniSections(_, _)
IniSections(items, i) ==
    IF i > Len(items) THEN <<>>
    ELSE <<TokStr("write", <<"[">> \o items[i][1] \o <<"]\n">>)>>
         \o (IF items[i][2].kind = "dict" THEN IniKeys(items[i][2].items, 1) ELSE <<>>)
         \o <<TokStr("write", <<"\n">>)>>
         \o IniSections(items, i + 1)

IniDump(config) ==
    IF config.kind # "dict" THEN [chunks |-> <<>>, error |-> "AttributeError"]
    ELSE Written(IniSections(config.items, 1))

\* the "text" branch: f.write(str(config))
TextDump(config) == Written(<<TokStr("write", PyStr(config))>>)

\* the format branches of save_config that open the file
WritingFormats == {"json", "ini", "text"}

Serialize(config, format_type) ==
    CASE format_type = "json" -> JsonDump(config)
      [] format_type = "ini"  -> IniDump(config)
      [] format_type = "text" -> TextDump(config)
      [] OTHER                -> Written(<<>>)

---------------------------------------------------------------------------
(* The working directory on disk and open(path, 'w') *)

DirStates == {"missing", "readonly", "writable"}

NoFile == [exists |-> FALSE, writable |-> FALSE, content |-> <<>>]

\* a file left by an earlier run
OldContent == <<TokStr("write", <<"old contents\n">>)>>

OldFile(writable) == [exists |-> TRUE, writable |-> writable, content |-> OldContent]

\* open(filepath, 'w'): an existing file needs its own write permission and is
\* truncated; a new file needs a directory that exists and can be written
OpenForWrite(dir, file) ==
    IF dir = "missing" THEN [exc |-> "FileNotFoundError", file |-> file]
    ELSE IF file.exists
    THEN IF file.writable
         THEN [exc |-> "none", file |-> [file EXCEPT !.content = <<>>]]
         ELSE [exc |-> "PermissionError", file |-> file]
    ELSE IF dir = "writable"
    THEN [exc |-> "none", file |-> [exists |-> TRUE, writable |-> TRUE, content |-> <<>>]]
    ELSE [exc |-> "PermissionError", file |-> file]

\* how the device treats the writes of one call: all accepted, or an OSError
\* (disk full, I/O error) once `after` chunks were accepted
IoOutcomes ==
    {[fails |-> FALSE, after |-> 0]} \cup {[fails |-> TRUE, after |-> k] : k \in 0..MaxPartial}

\* the with-block: the chunks of ser written one by one into the opened file
WriteChunks(file, ser, io) ==
    LET struck == io.fails /\ io.after < Len(ser.chunks)
        n      == IF struck THEN io.after ELSE Len(ser.chunks)
    IN  [exc  |-> IF struck THEN "OSError" ELSE ser.error,
         file |-> [file EXCEPT !.content = SubSeq(ser.chunks, 1, n)]]

\* the classes `except Exception` catches, among those a save can raise
ExceptionClasses ==
    {"OSError", "FileNotFoundError", "PermissionError", "TypeError", "AttributeError",
     "ModuleNotFoundError"}

\* variant: `except OSError` in place of `except Exception`
SaveConfigCatches_OSError(exc) ==
    exc \in {"OSError", "FileNotFoundError", "PermissionError"}

SaveConfigCatches(exc) == exc \in ExceptionClasses

\* the body of the try block: the format branch opens the file and writes
\* (an unknown format_type matches no branch and touches nothing): [exc, file]
WriteOpened(opened, config, format_type, io) ==
    IF opened.exc # "none" THEN opened
    ELSE WriteChunks(opened.file, Serialize(config, format_type), io)

TryWrite(dir, file, config, format_type, io) ==
    IF format_type \notin WritingFormats THEN [exc |-> "none", file |-> file]
    ELSE WriteOpened(OpenForWrite(dir, file), config, format_type, io)

\* the end of the try block and the except clause: [ret, raised, exc, file, logged]
SaveReturn(try) ==
    IF try.exc = "none"
    THEN [ret |-> TRUE, raised |-> "none", exc |-> "none",
          file |-> try.file, logged |-> <<"INFO">>]
    ELSE IF SaveConfigCatches(try.exc)
    THEN [ret |-> FALSE, raised |-> "none", exc |-> try.exc,
          file |-> try.file, logged |-> <<"ERROR">>]
    ELSE [ret |-> FALSE, raised |-> try.exc, exc |-> try.exc,
          file |-> try.file, logged |-> <<>>]

\* save_config(config, filename, format_type) on a directory `dir` holding `file`
\* at work_dir / filename
save_config(dir, file, config, format_type, io) ==
    SaveReturn(TryWrite(dir, file, config, format_type, io))

---------------------------------------------------------------------------
(* Inputs *)

\* an upper bound on the length of a --domain value, in characters
MaxDomainLen == 2

WorkDirArgs ==
    {<<"/", "my-hybrid-service">>, <<"/", "srv", "/", "app", "/">>, <<".">>}

ComfyDirArgs ==
    {<<"/", "workspace", "/", "ComfyUI">>, <<"/", "my-hybrid-service">>}

\* the characters a domain is made of here: a name and a line break
DomainChars == {"example.com", "\n"}

RECURSIVE SeqsUpTo(_, _)
SeqsUpTo(chars, n) ==
    IF n = 0 THEN {<<>>}
    ELSE LET shorter == SeqsUpTo(chars, n - 1)
         IN  shorter \cup {Append(q, c) : q \in shorter, c \in chars}

Domains == {NoDomain} \cup {Domain(d) : d \in SeqsUpTo(DomainChars, MaxDomainLen)}

WorkflowTypes == {<<"basic">>, <<>>, <<"sdxl">>, <<"Basic">>}

ConfigTypes == {"supervisor", "nginx", "docker", "workflow", "optimization"}

\* the file names main falls back to, and one given with --output
DefaultOutput(config_type, workflow_type) ==
    CASE config_type = "supervisor"   -> <<"supervisord.conf">>
      [] config_type = "nginx"        -> <<"nginx_site.conf">>
      [] config_type = "docker"       -> <<"docker-compose.yml">>
      [] config_type = "workflow"     -> <<"workflow_">> \o workflow_type \o <<".json">>
      [] config_type = "optimization" -> <<"gpu_optimization.json">>

OutputArgs == {<<>>, <<"out.conf">>}

FileNames ==
    (OutputArgs \ {<<>>})
    \cup {DefaultOutput(t, w) : t \in ConfigTypes, w \in WorkflowTypes}

\* the documents save_config is called on, by name: the generated ones and two
\* others (a dict holding a value json cannot encode, a dict of scalars)
SaveDocNames == {"supervisor", "nginx", "optimization", "unencodable", "scalars"}

SaveDoc(gen, name) ==
    CASE name = "supervisor"   -> generate_supervisor_config(gen.work_dir, gen.comfyui_dir)
      [] name = "nginx"        -> generate_nginx_config(NoDomain)
      [] name = "optimization" -> optimize_for_gpu_memory(gen.gpu_memory_gb)
      [] name = "unencodable"  -> M(<< KV("name", Str("x")), KV("handle", Obj) >>)
      [] name = "scalars"      -> M(<< KV("section", I(1)) >>)

SaveFormats == WritingFormats \cup {"yaml"}

SaveNames == {<<"out.conf">>}

---------------------------------------------------------------------------
(* Initial states *)

\* the directory is in any state a disk can be in: missing, or present with or
\* without write permission, holding no output file yet or those of an earlier
\* run, writable or write-protected
DiskInit ==
    /\ dirState \in DirStates
    /\ \E pre \in {NoFile, OldFile(TRUE), OldFile(FALSE)} :
          /\ dirState = "missing" => pre = NoFile
          /\ files = [n \in FileNames |-> pre]

\* before __init__: the arguments are fixed; the generators never touch the
\* disk, an empty directory in each of its states stands for it
Init ==
    /\ argv \in [work_dir : WorkDirArgs, comfyui_dir : ComfyDirArgs]
    /\ generator = NoGenerator
    /\ dirState \in DirStates
    /\ files = [n \in FileNames |-> NoFile]
    /\ last = [op |-> "none"]
    /\ logged = <<>>

\* after __init__ returned: one GPU size of each tier
InitSave ==
    /\ argv = [work_dir |-> <<"/", "my-hybrid-service">>,
               comfyui_dir |-> <<"/", "workspace", "/", "ComfyUI">>]
    /\ \E gb \in {DefaultGpuMemoryGB, MediumMemoryTier, HighMemoryTier} :
          generator = [alive |-> TRUE,
                       work_dir |-> PathStr(argv.work_dir),
                       comfyui_dir |-> PathStr(argv.comfyui_dir),
                       gpu_memory_gb |-> gb]
    /\ DiskInit
    /\ last = [op |-> "none"]
    /\ logged = <<>>

---------------------------------------------------------------------------
(* The methods of a constructed generator *)

GenerateSupervisorConfig ==
    /\ generator.alive
    /\ last' = [op |-> "generate_supervisor_config", raised |-> "none",
                result |-> generate_supervisor_config(generator.work_dir,
                                                      generator.comfyui_dir)]
    /\ logged' = <<>>
    /\ UNCHANGED <<argv, generator, dirState, files>>

GenerateNginxConfig ==
    /\ generator.alive
    /\ \E domain \in Domains :
          last' = [op |-> "generate_nginx_config", domain |-> domain, raised |-> "none",
                   result |-> generate_nginx_config(domain)]
    /\ logged' = <<>>
    /\ UNCHANGED <<argv, generator, dirState, files>>

GenerateComfyuiWorkflow ==
    /\ generator.alive
    /\ \E workflow_type \in WorkflowTypes :
          last' = [op |-> "generate_comfyui_workflow", workflow_type |-> workflow_type,
                   raised |-> "none",
                   result |-> generate_comfyui_workflow(workflow_type)]
    /\ logged' = <<>>
    /\ UNCHANGED <<argv, generator, dirState, files>>

GenerateDockerCompose ==
    /\ generator.alive
    /\ last' = [op |-> "generate_docker_compose", raised |-> "none",
                result |-> generate_docker_compose(generator.work_dir)]
    /\ logged' = <<>>
    /\ UNCHANGED <<argv, generator, dirState, files>>

OptimizeForGpuMemory ==
    /\ generator.alive
    /\ last' = [op |-> "optimize_for_gpu_memory", raised |-> "none",
                result |-> optimize_for_gpu_memory(generator.gpu_memory_gb)]
    /\ logged' = <<>>
    /\ UNCHANGED <<argv, generator, dirState, files>>

SaveConfig ==
    /\ generator.alive
    /\ \E doc \in SaveDocNames :
        \E config \in {SaveDoc(generator, doc)} :
        \E filename \in SaveNames, format_type \in SaveFormats, io \in IoOutcomes :
        \E r \in {save_config(dirState, files[filename], config, format_type, io)} :
          /\ files' = [files EXCEPT ![filename] = r.file]
          /\ last' = [op |-> "save_config", config |-> doc, filename |-> filename,
                      format_type |-> format_type, ret |-> r.ret,
                      raised |-> r.raised, exc |-> r.exc,
                      dirBefore |-> dirState,
                      existedBefore |-> files[filename].exists,
                      kept |-> r.file = files[filename]]
          /\ logged' = r.logged
    /\ UNCHANGED <<argv, generator, dirState>>

\* the environment: the directory is created, removed (when it holds no file)
\* or its write permission changes
Chmod ==
    /\ dirState' \in DirStates \ {dirState}
    /\ dirState' = "missing" => \A n \in FileNames : ~files[n].exists
    /\ UNCHANGED <<argv, generator, files, last, logged>>

Next ==
    \/ Construct
    \/ GenerateSupervisorConfig
    \/ GenerateNginxConfig
    \/ GenerateComfyuiWorkflow
    \/ GenerateDockerCompose
    \/ OptimizeForGpuMemory

Spec == Init /\ [][Next]_vars

NextSave ==
    \/ SaveConfig
    \/ Chmod

SpecSave == InitSave /\ [][NextSave]_vars

---------------------------------------------------------------------------
(* main: one run of the command line *)

\* yaml.dump(config, f, default_flow_style=False): block style, the emitter
\* writing key after key and item after item (the order PyYAML gives the keys
\* is not modelled)
RECURSIVE YamlValue(_, _)
RECURSIVE YamlItems(_, _, _, _)
YamlValue(v, depth) ==
    IF v.kind \in {"dict", "list"} THEN YamlItems(v.items, 1, v.kind = "dict", depth)
    ELSE <<TokStr("scalar", PyStr(v))>>

YamlItems(items, i, isDict, depth) ==
    IF i > Len(items) THEN <<>>
    ELSE (IF isDict
          THEN <<TokNum("indent", depth), TokStr("key", items[i][1])>>
               \o YamlValue(items[i][2], depth + 1)
          ELSE <<TokNum("indent", depth), Tok("- ")>> \o YamlValue(items[i], depth + 1))
         \o YamlItems(items, i + 1, isDict, depth)

YamlDump(config) == Written(YamlValue(config, 0))

\* the runs of the probe main is followed through
MainProbes ==
    {p \in ProbeOutcomes :
        \/ p.kind # "completed"
        \/ p.mib \in {NoReading, MediumMemoryTier * MiBPerGB, HighMemoryTier * MiBPerGB}}

MainArgs ==
    [config_type   : ConfigTypes,
     output        : OutputArgs,
     domain        : {NoDomain, Domain(<<"example.com">>)},
     workflow_type : {<<"basic">>, <<"sdxl">>}]

\* args.output or the default name of the config type
OutputFile(args) ==
    IF args.output # <<>> THEN args.output
    ELSE DefaultOutput(args.config_type, args.workflow_type)

\* the docker branch of main: open, import yaml, yaml.dump, outside any try
DumpOpened(opened, config, io, yamlInstalled) ==
    IF opened.exc # "none" THEN opened
    ELSE IF ~yamlInstalled THEN [exc |-> "ModuleNotFoundError", file |-> opened.file]
    ELSE WriteChunks(opened.file, YamlDump(config), io)

write_docker_compose(dir, file, config, io, yamlInstalled) ==
    DumpOpened(OpenForWrite(dir, file), config, io, yamlInstalled)

\* what a branch of main leaves: exc is the exception the write of the output
\* file ended with, raised the one that leaves main
AfterDump(w) ==
    [file |-> w.file, exc |-> w.exc, raised |-> w.exc,
     logged |-> IF w.exc = "none" THEN <<"INFO">> ELSE <<>>]

AfterSave(r) ==
    [file |-> r.file, exc |-> r.exc, raised |-> r.raised, logged |-> r.logged]

\* the if/elif chain of main on a constructed generator
RunConfigType(args, wd, cd, gpu_memory_gb, dir, file, io, yamlInstalled) ==
    CASE args.config_type = "supervisor" ->
            AfterSave(save_config(dir, file, generate_supervisor_config(wd, cd), "ini", io))
      [] args.config_type = "nginx" ->
            AfterSave(save_config(dir, file, generate_nginx_config(args.domain), "text", io))
      [] args.config_type = "docker" ->
            AfterDump(write_docker_compose(dir, file, generate_docker_compose(wd), io,
                                           yamlInstalled))
      [] args.config_type = "workflow" ->
            AfterSave(save_config(dir, file, generate_comfyui_workflow(args.workflow_type),
                                  "json", io))
      [] args.config_type = "optimization" ->
            AfterSave(save_config(dir, file, optimize_for_gpu_memory(gpu_memory_gb),
                                  "json", io))

\* main(): one command line run, from the parsed arguments to the exit of the
\* process; the completion message is printed only when no exception left main
Main ==
    /\ last.op = "none"
    /\ \E args \in MainArgs, probe \in MainProbes, io \in IoOutcomes,
          yamlInstalled \in BOOLEAN :
       \E g \in {get_gpu_memory(probe)} :
       \E r \in {IF g.raised # "none"
                 THEN [file |-> files[OutputFile(args)], exc |-> "none",
                       raised |-> g.raised, logged |-> <<>>]
                 ELSE RunConfigType(args, PathStr(argv.work_dir),
                                    PathStr(argv.comfyui_dir), g.value, dirState,
                                    files[OutputFile(args)], io, yamlInstalled)} :
          /\ files' = [files EXCEPT ![OutputFile(args)] = r.file]
          /\ last' = [op |-> "main", config_type |-> args.config_type,
                      output_file |-> OutputFile(args), exc |-> r.exc,
                      raised |-> r.raised,
                      printed |-> r.raised = "none",
                      exit |-> IF r.raised = "none" THEN 0 ELSE 1]
          /\ logged' = (IF g.warned THEN <<"WARNING">> ELSE <<>>) \o r.logged
    /\ UNCHANGED <<argv, generator, dirState>>

InitMain ==
    /\ argv \in [work_dir : WorkDirArgs, comfyui_dir : ComfyDirArgs]
    /\ generator = NoGenerator
    /\ DiskInit
    /\ last = [op |-> "none"]
    /\ logged = <<>>

NextMain == Main

SpecMain == InitMain /\ [][NextMain]_vars

---------------------------------------------------------------------------
(* Properties *)

Field(d, name) == Get(d, <<name>>)

\* C1: for every integer gpu_memory_gb the tuning profile is exactly one of three,
\* chosen high to low: >= 24 gives batch size 4, flash_attention, cache_models
\* true, memory fraction 0.9; 12 <= value < 24 gives batch size 2,
\* efficient_attention, cache_models true, fraction 0.8; < 12 gives batch size 1,
\* low_mem_attention, cache_models false, fraction 0.7 and sequential CPU offload
\* true; only the low profile has the offload key, and precision is fp16 in all.
C1_TierProfiles ==
    last.op = "optimize_for_gpu_memory" =>
        LET gb == generator.gpu_memory_gb
            p  == last.result
            offload == <<"enable_sequential_cpu_offload">>
        IN  /\ last.raised = "none"
            /\ p.kind = "dict"
            /\ Field(p, "model_precision") = Str("fp16")
            /\ gb >= 24 =>
                  /\ Field(p, "batch_size") = I(4)
                  /\ Field(p, "attention_mode") = Str("flash_attention")
                  /\ Field(p, "cache_models") = B(TRUE)
                  /\ Field(p, "memory_fraction") = Fl(9)
                  /\ ~HasKey(p, offload)
            /\ (gb >= 12 /\ gb < 24) =>
                  /\ Field(p, "batch_size") = I(2)
                  /\ Field(p, "attention_mode") = Str("efficient_attention")
                  /\ Field(p, "cache_models") = B(TRUE)
                  /\ Field(p, "memory_fraction") = Fl(8)
                  /\ ~HasKey(p, offload)
            /\ gb < 12 =>
                  /\ Field(p, "batch_size") = I(1)
                  /\ Field(p, "attention_mode") = Str("low_mem_attention")
                  /\ Field(p, "cache_models") = B(FALSE)
                  /\ Field(p, "memory_fraction") = Fl(7)
                  /\ HasKey(p, offload)
                  /\ Get(p, offload) = B(TRUE)

\* the profile was computed for a GPU of exactly 12 GB, the lower bound of the
\* medium tier
C1_Witness ==
    /\ last.op = "optimize_for_gpu_memory"
    /\ generator.gpu_memory_gb = 12

IoFailures == {"OSError", "FileNotFoundError", "PermissionError"}

\* C2: save_config never lets an exception escape: whenever opening or writing
\* the file fails (missing directory, permission denial, a failure part-way
\* through the write) it logs an error and returns False; it returns a boolean
\* in every case.
C2_SaveNeverRaises ==
    last.op = "save_config" =>
        /\ last.raised = "none"
        /\ last.ret \in BOOLEAN
        /\ last.exc # "none" =>
              /\ last.ret = FALSE
              /\ logged = <<"ERROR">>

\* a write that failed after some chunks, and one of a document json cannot
\* encode, both answered with False
C2_Witness ==
    /\ last.op = "save_config"
    /\ last.exc = "TypeError"
    /\ last.ret = FALSE
    /\ files[last.filename].content # <<>>

\* what save_config would write for its last call, completely
LastSerialization ==
    Serialize(SaveDoc(generator, last.config), last.format_type).chunks

\* C3: in a working directory without write permission save_config leaves no
\* partial file: after the call the target is not created, or is unchanged, or
\* holds the complete serialization of the document, never a truncated or
\* partly written one.  (The claim's other half, that the call returns False,
\* is left out here: it fails as well, whenever the file exists and is writable.)
C3_ReadonlyDirNoPartialFile ==
    (/\ last.op = "save_config"
     /\ last.dirBefore = "readonly"
     /\ last.format_type \in WritingFormats) =>
        \/ last.kept
        \/ /\ files[last.filename].exists
           /\ files[last.filename].content = LastSerialization

\* C9: whenever a save_config call returns True, the file at work_dir/filename
\* holds exactly the serialization of that call's document in the requested
\* format, nothing of its prior contents kept; for every format_type.
C9_TrueMeansWritten ==
    (last.op = "save_config" /\ last.ret = TRUE) =>
        /\ files[last.filename].exists
        /\ files[last.filename].content = LastSerialization

\* C4: generate_comfyui_workflow is total and deterministic: for every variant
\* string, the empty one and unrecognized ones included, every call returns
\* without error the graph filed under "basic".
C4_WorkflowTotal ==
    last.op = "generate_comfyui_workflow" =>
        /\ last.raised = "none"
        /\ last.result = BasicWorkflow

\* a call with a variant the catalog does not hold
C4_Witness ==
    /\ last.op = "generate_comfyui_workflow"
    /\ last.workflow_type = <<"sdxl">>

\* C5: constructing the generator always succeeds with an integer
\* gpu_memory_gb: 8 with a warning logged when the probe command is missing,
\* exits non-zero or prints a first line that is no integer, and floor(M / 1024)
\* when the first line is the integer M.
C5_ConstructAlwaysSucceeds ==
    last.op = "__init__" =>
        /\ last.raised = "none"
        /\ generator.alive
        /\ (last.probe.kind # "completed" \/ last.probe.mib = NoReading) =>
              /\ generator.gpu_memory_gb = 8
              /\ logged = <<"WARNING">>
        /\ (last.probe.kind = "completed" /\ last.probe.mib # NoReading) =>
              /\ generator.gpu_memory_gb * 1024 <= last.probe.mib
              /\ last.probe.mib < (generator.gpu_memory_gb + 1) * 1024

\* C6: for each of the five config types, a write of the output file that
\* fails with an I/O exception does not propagate: main still prints the
\* completion message and ends normally, exit code unchanged.
C6_WriteFailureStaysLocal ==
    (last.op = "main" /\ last.exc \in IoFailures) =>
        /\ last.raised = "none"
        /\ last.printed
        /\ last.exit = 0

\* text.split('\n'): the lines of a text
LineBreaks(text) == {i \in 1..Len(text) : text[i] = "\n"}

SplitLines(text) ==
    LET nl    == LineBreaks(text)
        at(k) == IF k = 0 THEN 0
                 ELSE IF k > Cardinality(nl) THEN Len(text) + 1
                 ELSE CHOOSE i \in nl : Cardinality({j \in nl : j < i}) = k - 1
    IN  [k \in 1..(Cardinality(nl) + 1) |-> SubSeq(text, at(k - 1) + 1, at(k) - 1)]

IsServerNameLine(line) == line # <<>> /\ line[1] = "    server_name "

ServerNameLines(lines) == {i \in 1..Len(lines) : IsServerNameLine(lines[i])}

\* the server block with `name` as its server_name token: one server_name
\* line, "    server_name <name>;", and every other line as in `base`
NamesServer(lines, base, name) ==
    /\ Len(lines) = Len(base)
    /\ Cardinality(ServerNameLines(lines)) = 1
    /\ \A i \in 1..Len(lines) :
          IF IsServerNameLine(base[i])
          THEN lines[i] = <<"    server_name ">> \o name \o <<";">>
          ELSE lines[i] = base[i]

\* C7 as claimed: with no domain the server_name token is `_`, with a domain
\* string d it is exactly d, and the two outputs differ in the server_name line
\* only, for all domains.
C7_ServerNameAsClaimed ==
    last.op = "generate_nginx_config" =>
        LET lines == SplitLines(last.result.str)
            base  == SplitLines(generate_nginx_config(NoDomain).str)
        IN  NamesServer(lines, base,
                        IF last.domain.given THEN last.domain.str ELSE <<"_">>)

\* C7, amended: with no domain or the empty string the server_name token is
\* `_`; with a non-empty domain d holding no line break it is exactly d; these
\* outputs differ in the server_name line only.
C7_ServerName ==
    last.op = "generate_nginx_config" =>
        LET lines == SplitLines(last.result.str)
            base  == SplitLines(generate_nginx_config(NoDomain).str)
            d     == last.domain
        IN  /\ last.raised = "none"
            /\ (~d.given \/ d.str = <<>>) => NamesServer(lines, base, <<"_">>)
            /\ (d.given /\ d.str # <<>> /\ "\n" \notin Range(d.str)) =>
                  NamesServer(lines, base, d.str)

\* the config generated for the domain example.com
C7_Witness ==
    /\ last.op = "generate_nginx_config"
    /\ last.domain = Domain(<<"example.com">>)

IsProgramSection(key) == key # <<>> /\ key[1] = "program:"

\* C8: for every working and application directory the supervisor config has
\* exactly two program sections, "comfyui" and "fastapi"; in each the stdout log
\* path differs from the stderr log path, and the four paths are pairwise distinct.
C8_TwoProgramSections ==
    last.op = "generate_supervisor_config" =>
        LET c        == last.result
            sections == {i \in 1..Len(c.items) : IsProgramSection(c.items[i][1])}
            comfyui  == <<"program:", "comfyui">>
            fastapi  == <<"program:", "fastapi">>
            out(k)   == Field(Get(c, k), "stdout_logfile")
            err(k)   == Field(Get(c, k), "stderr_logfile")
        IN  /\ Cardinality(sections) = 2
            /\ {c.items[i][1] : i \in sections} = {comfyui, fastapi}
            /\ out(comfyui) # err(comfyui)
            /\ out(fastapi) # err(fastapi)
            /\ Cardinality({out(comfyui), err(comfyui), out(fastapi), err(fastapi)}) = 4

\* the config of a generator whose application directory is its working directory
C8_Witness ==
    /\ last.op = "generate_supervisor_config"
    /\ generator.work_dir = generator.comfyui_dir

\* a reference pair [node id, output slot] among a node's inputs
IsRef(v) ==
    /\ v.kind = "list"
    /\ Len(v.items) = 2
    /\ v.items[1].kind = "str"
    /\ v.items[2].kind = "int"

NodeInputs(g, n) == Field(Get(g, n), "inputs")

\* the node ids node n refers to
RefTargets(g, n) ==
    LET ins == NodeInputs(g, n).items
    IN  {ins[i][2].items[1].str : i \in {j \in 1..Len(ins) : IsRef(ins[j][2])}}

\* the nodes reached from the nodes of `from` along at most k references
RECURSIVE ReachedWithin(_, _, _)
ReachedWithin(g, from, k) ==
    IF k = 0 THEN {}
    ELSE LET next == UNION {RefTargets(g, n) : n \in from \cap Keys(g)}
         IN  next \cup ReachedWithin(g, next, k - 1)

\* the one node of a class; NodesOf gives all of them
NodesOf(g, class) == {n \in Keys(g) : Field(Get(g, n), "class_type") = Str(class)}

NodeOf(g, class) == CHOOSE n \in NodesOf(g, class) : TRUE

\* C10: every graph generate_comfyui_workflow returns is well formed: exactly 7
\* nodes, every reference names a node of the same graph, the reference
\* relation is acyclic; the sampler reads the checkpoint's slot 0, both text
\* encoders its slot 1, the decoder reads the sampler's output and the
\* checkpoint's slot 2, the image-save node reads the decoder's output.
C10_GraphWellFormed ==
    last.op = "generate_comfyui_workflow" =>
        LET g       == last.result
            ckpt    == NodeOf(g, "CheckpointLoaderSimple")
            sampler == NodeOf(g, "KSampler")
            decoder == NodeOf(g, "VAEDecode")
            save    == NodeOf(g, "SaveImage")
        IN  /\ g.kind = "dict"
            /\ Len(g.items) = 7
            /\ Cardinality(Keys(g)) = 7
            /\ \A n \in Keys(g) : RefTargets(g, n) \subseteq Keys(g)
            /\ \A n \in Keys(g) : n \notin ReachedWithin(g, {n}, Cardinality(Keys(g)))
            /\ Cardinality(NodesOf(g, "CheckpointLoaderSimple")) = 1
            /\ Cardinality(NodesOf(g, "KSampler")) = 1
            /\ Cardinality(NodesOf(g, "VAEDecode")) = 1
            /\ Cardinality(NodesOf(g, "SaveImage")) = 1
            /\ Cardinality(NodesOf(g, "CLIPTextEncode")) = 2
            /\ Field(NodeInputs(g, sampler), "model") = L(<<S(ckpt), I(0)>>)
            /\ \A e \in NodesOf(g, "CLIPTextEncode") :
                  Field(NodeInputs(g, e), "clip") = L(<<S(ckpt), I(1)>>)
            /\ Field(NodeInputs(g, decoder), "samples") = L(<<S(sampler), I(0)>>)
            /\ Field(NodeInputs(g, decoder), "vae") = L(<<S(ckpt), I(2)>>)
            /\ Field(NodeInputs(g, save), "images") = L(<<S(decoder), I(0)>>)

\* the graph returned for the empty variant string
C10_Witness ==
    /\ last.op = "generate_comfyui_workflow"
    /\ last.workflow_type = <<>>

===========================================================================
